---- MODULE Spec2Model ----
(***************************************************************************)
(* A model of app.py: the keyword intent classifier, the regex parameter   *)
(* extractor, the dispatcher that builds the response envelope, the        *)
(* /route endpoint and the page script that calls it.                      *)
(*                                                                         *)
(* A Python str is a sequence of one-character strings.  A Python value    *)
(* that may be a str, a float or None is a tagged record (PyStr, PyFloat,  *)
(* PyNone); a dict is a record whose DOMAIN is its key set.                *)
(***************************************************************************)
EXTENDS Integers, Sequences, FiniteSets, TLC

VARIABLES
    text,        \* harness: the str handed to the function under call
    called,      \* harness: which function of app.py has been called
    arg_intent,  \* harness: the intent argument of extract_params
    ret,         \* harness: the value the call returned
    handler_calls, \* harness: the chatbot actions the call invoked, in order
    frames,      \* server: one route_query frame per concurrent invocation
    received,    \* server: number of POST /route requests accepted so far
    responses,   \* server: the envelopes route_endpoint has returned
    q_value,     \* page: q.value, the text input
    go_disabled, \* page: go.disabled, the Run button
    panels,      \* page: textContent of the intent/params/result panels
    inflight,    \* page: fetch('/route') requests awaiting their response
    started      \* page: number of run() calls that sent a request

harness_vars == <<text, called, arg_intent, ret, handler_calls>>
server_vars == <<frames, received, responses>>
page_vars == <<q_value, go_disabled, panels, inflight, started>>
vars == <<harness_vars, server_vars, page_vars>>

-----------------------------------------------------------------------------
(* Python values *)

PyNone == [t |-> "None"]

PyStr(s) == [t |-> "str", s |-> s]

\* A float holding the decimal m * 10^(-e), kept in lowest terms so that
\* equal numbers are equal records (float("1.50") == float("1.5")).
RECURSIVE Normalize(_, _)
Normalize(m, e) ==
    IF e > 0 /\ m % 10 = 0 THEN Normalize(m \div 10, e - 1) ELSE [t |-> "float", m |-> m, e |-> e]

PyFloat(m, e) == Normalize(m, e)

RECURSIVE Pow10(_)
Pow10(n) == IF n = 0 THEN 1 ELSE 10 * Pow10(n - 1)

Min(set) == CHOOSE x \in set : \A y \in set : x <= y

Max(set) == CHOOSE x \in set : \A y \in set : x >= y

-----------------------------------------------------------------------------
(* str methods and character classes used by app.py *)

UpperCase == <<"A", "B", "C", "D", "E", "F", "G", "H", "I", "J", "K", "L", "M", "N", "O", "P",
    "Q", "R", "S", "T", "U", "V", "W", "X", "Y", "Z">>

LowerCase == <<"a", "b", "c", "d", "e", "f", "g", "h", "i", "j", "k", "l", "m", "n", "o", "p",
    "q", "r", "s", "t", "u", "v", "w", "x", "y", "z">>

Digits == <<"0", "1", "2", "3", "4", "5", "6", "7", "8", "9">>

UpperSet == {UpperCase[i] : i \in 1..26}

LowerSet == {LowerCase[i] : i \in 1..26}

DigitSet == {Digits[i] : i \in 1..10}

ToLower == [c \in UpperSet |-> LowerCase[CHOOSE i \in 1..26 : UpperCase[i] = c]]

ToUpper == [c \in LowerSet |-> UpperCase[CHOOSE i \in 1..26 : LowerCase[i] = c]]

DigitValue == [c \in DigitSet |-> (CHOOSE i \in 1..10 : Digits[i] = c) - 1]

\* [A-Za-z]
IsLetter(c) == c \in UpperSet \/ c \in LowerSet

\* \s
IsSpace(c) == c \in {" ", "\t", "\n", "\r"}

\* \d
IsDigit(c) == c \in DigitSet

\* [a-zA-Z\s.-]
IsPlaceChar(c) == IsLetter(c) \/ IsSpace(c) \/ c \in {".", "-"}

LowerChar(c) == IF c \in UpperSet THEN ToLower[c] ELSE c

UpperChar(c) == IF c \in LowerSet THEN ToUpper[c] ELSE c

\* str.lower()
Lower(s) == [i \in 1..Len(s) |-> LowerChar(s[i])]

\* str.strip()
Strip(s) ==
    LET keep == {i \in 1..Len(s) : ~IsSpace(s[i])}
    IN  IF keep = {} THEN <<>> ELSE SubSeq(s, Min(keep), Max(keep))

\* str.title(): a letter that follows a letter is lowercased, any other
\* letter is uppercased.
Title(s) ==
    [i \in 1..Len(s) |->
        IF i > 1 /\ IsLetter(s[i - 1]) THEN LowerChar(s[i]) ELSE UpperChar(s[i])]

\* k in t
Contains(t, k) ==
    \E i \in 0..(Len(t) - Len(k)) : SubSeq(t, i + 1, i + Len(k)) = k

-----------------------------------------------------------------------------
(* Simulated chatbot actions *)

WeatherPrefix == <<"W", "e", "a", "t", "h", "e", "r", " ", "f", "o", "r", " ">>

WeatherSuffix == <<":", " ", "3", "1", "°", "C", ",", " ", "p", "a", "r", "t", "l", "y", " ", "c",
    "l", "o", "u", "d", "y", ",", " ", "l", "i", "g", "h", "t", " ", "b", "r", "e",
    "e", "z", "e", ".">>

getWeather(location) ==
    PyStr(WeatherPrefix \o Strip(Title(location)) \o WeatherSuffix)

getJoke ==
    PyStr(<<"W", "h", "y", " ", "d", "i", "d", " ", "t", "h", "e", " ", "d", "e", "v",
          "e", "l", "o", "p", "e", "r", " ", "g", "o", " ", "b", "r", "o", "k", "e",
          "?", " ", "B", "e", "c", "a", "u", "s", "e", " ", "t", "h", "e", "y", " ",
          "u", "s", "e", "d", " ", "u", "p", " ", "a", "l", "l", " ", "t", "h", "e",
          "i", "r", " ", "c", "a", "c", "h", "e", "!">>)

\* Variant of addNumbers with the operator mistyped: num1 - num2.
addNumbersSubtracting(num1, num2) ==
    LET e == IF num1.e >= num2.e THEN num1.e ELSE num2.e
    IN  PyFloat(num1.m * Pow10(e - num1.e) - num2.m * Pow10(e - num2.e), e)

\* num1 + num2 on floats, as exact decimal addition
addNumbers(num1, num2) ==
    LET e == IF num1.e >= num2.e THEN num1.e ELSE num2.e
    IN  PyFloat(num1.m * Pow10(e - num1.e) + num2.m * Pow10(e - num2.e), e)

-----------------------------------------------------------------------------
(* Intent recognition *)

\* The dict in its insertion order, which is the order .items() iterates in.
INTENT_KEYWORDS == <<
    [intent |-> "weather", keywords |-> <<
        <<"w", "e", "a", "t", "h", "e", "r">>,
        <<"f", "o", "r", "e", "c", "a", "s", "t">>,
        <<"t", "e", "m", "p", "e", "r", "a", "t", "u", "r", "e">>>>],
    [intent |-> "joke", keywords |-> <<
        <<"j", "o", "k", "e">>,
        <<"f", "u", "n", "n", "y">>,
        <<"m", "a", "k", "e", " ", "m", "e", " ", "l", "a", "u", "g", "h">>>>],
    [intent |-> "add", keywords |-> <<
        <<"a", "d", "d">>,
        <<"s", "u", "m">>,
        <<"p", "l", "u", "s">>,
        <<"+">>>>] >>

Intents == {"weather", "joke", "add", "unknown"}

\* any(k in t for k in keywords)
AnyKeywordIn(keywords, t) == \E j \in 1..Len(keywords) : Contains(t, keywords[j])

\* Variant of identify_intent whose loop does not return at the first hit:
\* the last matching intent wins.
identify_intent_last_match(txt) ==
    LET t == Lower(txt)
        hits == {i \in 1..Len(INTENT_KEYWORDS) : AnyKeywordIn(INTENT_KEYWORDS[i].keywords, t)}
    IN  IF hits = {} THEN "unknown" ELSE INTENT_KEYWORDS[Max(hits)].intent

identify_intent(txt) ==
    LET t == Lower(txt)
        hits == {i \in 1..Len(INTENT_KEYWORDS) : AnyKeywordIn(INTENT_KEYWORDS[i].keywords, t)}
    IN  IF hits = {} THEN "unknown" ELSE INTENT_KEYWORDS[Min(hits)].intent

-----------------------------------------------------------------------------
(* Parameter extraction *)

Prepositions == <<<<"i", "n">>, <<"a", "t">>, <<"f", "o", "r">>>>

DefaultCity == <<"y", "o", "u", "r", " ", "c", "i", "t", "y">>

TwoNumbersMessage == <<"P", "l", "e", "a", "s", "e", " ", "p", "r", "o", "v", "i", "d", "e", " ", "t",
    "w", "o", " ", "n", "u", "m", "b", "e", "r", "s", " ", "t", "o", " ", "a", "d",
    "d", " ", "(", "e", ".", "g", ".", ",", " ", "'", "a", "d", "d", " ", "1", "2",
    " ", "a", "n", "d", " ", "7", "'", ")", ".">>

UnknownMessage == <<"S", "o", "r", "r", "y", ",", " ", "I", " ", "c", "o", "u", "l", "d", "n", "'",
    "t", " ", "u", "n", "d", "e", "r", "s", "t", "a", "n", "d", ".", " ", "T", "r",
    "y", " ", "a", "s", "k", "i", "n", "g", " ", "f", "o", "r", " ", "w", "e", "a",
    "t", "h", "e", "r", ",", " ", "a", " ", "j", "o", "k", "e", ",", " ", "o", "r",
    " ", "t", "o", " ", "a", "d", "d", " ", "n", "u", "m", "b", "e", "r", "s", ".">>

EmptyDict == [k \in {} |-> PyNone]

\* re.search(r"(?:in|at|for)\s+([a-zA-Z\s.-]{2,})$", s, flags=re.I) on a
\* stripped s: <<group(1)>> of the match the backtracking search returns, <<>>
\* for no match.  The search takes the leftmost start p, there the first
\* alternative j that can match, and for it the longest \s+ (k characters)
\* that still leaves the group two characters reaching the end of s.
SearchAfterPreposition(s) ==
    LET n == Len(s)
        PrefixAt(p, j) ==
            /\ p + Len(Prepositions[j]) - 1 <= n
            /\ Lower(SubSeq(s, p, p + Len(Prepositions[j]) - 1)) = Prepositions[j]
        RestAt(g, k) ==
            /\ n - (g + k) + 1 >= 2
            /\ \A i \in g..(g + k - 1) : IsSpace(s[i])
            /\ \A i \in (g + k)..n : IsPlaceChar(s[i])
        MatchAt(p, j) ==
            /\ PrefixAt(p, j)
            /\ \E k \in 1..(n - p) : RestAt(p + Len(Prepositions[j]), k)
        starts == {p \in 1..n : \E j \in 1..Len(Prepositions) : MatchAt(p, j)}
    IN  IF starts = {} THEN <<>>
        ELSE LET p == Min(starts)
                 j == Min({a \in 1..Len(Prepositions) : MatchAt(p, a)})
                 g == p + Len(Prepositions[j])
                 k == Max({b \in 1..(n - p) : RestAt(g, b)})
             IN  <<SubSeq(s, g + k, n)>>

\* Variant of SearchTrailingPlace with the $ left out of the pattern: the
\* leftmost letter that a place character follows, and the run from it.
SearchTrailingPlaceUnanchored(s) ==
    LET n == Len(s)
        starts == {p \in 1..(n - 1) : IsLetter(s[p]) /\ IsPlaceChar(s[p + 1])}
    IN  IF starts = {} THEN <<>>
        ELSE LET p == Min(starts)
                 other == {i \in (p + 1)..n : ~IsPlaceChar(s[i])}
             IN  <<SubSeq(s, p, IF other = {} THEN n ELSE Min(other) - 1)>>

\* Variant of SearchTrailingPlace with \s left out of the class: the last
\* word only.
SearchTrailingWord(s) ==
    LET n == Len(s)
        starts == {p \in 1..(n - 1) :
                      IsLetter(s[p])
                      /\ \A i \in (p + 1)..n : IsPlaceChar(s[i]) /\ ~IsSpace(s[i])}
    IN  IF starts = {} THEN <<>> ELSE <<SubSeq(s, Min(starts), n)>>

\* re.search(r"([A-Za-z][A-Za-z\s.-]{1,})$", s) on a stripped s: the leftmost
\* letter from which everything up to the end of s is a place character.
SearchTrailingPlace(s) ==
    LET n == Len(s)
        starts == {p \in 1..(n - 1) :
                      IsLetter(s[p]) /\ \A i \in (p + 1)..n : IsPlaceChar(s[i])}
    IN  IF starts = {} THEN <<>> ELSE <<SubSeq(s, Min(starts), n)>>

\* the number of \d characters from position p on
RECURSIVE DigitRun(_, _)
DigitRun(s, p) == IF p <= Len(s) /\ IsDigit(s[p]) THEN 1 + DigitRun(s, p + 1) ELSE 0

\* the length of the match of (?:\d*\.\d+|\d+) at p, 0 for no match
UnsignedLen(s, p) ==
    LET d1 == DigitRun(s, p)
        d2 == IF p + d1 <= Len(s) /\ s[p + d1] = "." THEN DigitRun(s, p + d1 + 1) ELSE 0
    IN  IF d2 > 0 THEN d1 + 1 + d2 ELSE d1

\* Variant of NumberLen with the [-+]? left out of the pattern.
NumberLenUnsigned(s, p) == UnsignedLen(s, p)

\* the length of the match of [-+]?(?:\d*\.\d+|\d+) at p, 0 for no match
NumberLen(s, p) ==
    IF p <= Len(s) /\ s[p] \in {"-", "+"} /\ UnsignedLen(s, p + 1) > 0
    THEN 1 + UnsignedLen(s, p + 1)
    ELSE UnsignedLen(s, p)

\* re.findall(r"[-+]?(?:\d*\.\d+|\d+)", s): the non-overlapping matches,
\* scanning left to right from position p
RECURSIVE FindAllNumbers(_, _)
FindAllNumbers(s, p) ==
    IF p > Len(s) THEN <<>>
    ELSE LET len == NumberLen(s, p)
         IN  IF len > 0
             THEN <<SubSeq(s, p, p + len - 1)>> \o FindAllNumbers(s, p + len)
             ELSE FindAllNumbers(s, p + 1)

RECURSIVE DigitsValue(_)
DigitsValue(ds) ==
    IF ds = <<>> THEN 0
    ELSE 10 * DigitsValue(SubSeq(ds, 1, Len(ds) - 1)) + DigitValue[ds[Len(ds)]]

\* float(s) for an s the number pattern matched
float(s) ==
    LET signed == s[1] \in {"-", "+"}
        body == IF signed THEN Tail(s) ELSE s
        dots == {i \in 1..Len(body) : body[i] = "."}
        whole == IF dots = {} THEN body ELSE SubSeq(body, 1, Min(dots) - 1)
        frac == IF dots = {} THEN <<>> ELSE SubSeq(body, Min(dots) + 1, Len(body))
        m == DigitsValue(whole \o frac)
    IN  PyFloat(IF s[1] = "-" THEN 0 - m ELSE m, Len(frac))

\* Variant of extract_params whose first branch is not guarded by the
\* intent: every intent but "add" gets a location.
extract_params_location_for_all(intent, txt) ==
    IF intent # "add"
    THEN LET s == Strip(txt)
             m1 == SearchAfterPreposition(s)
             m == IF m1 = <<>> THEN SearchTrailingPlace(s) ELSE m1
             city == IF m # <<>> THEN Strip(m[1]) ELSE DefaultCity
         IN  [location |-> PyStr(city)]
    ELSE LET nums == FindAllNumbers(txt, 1)
         IN  IF Len(nums) >= 2
             THEN [num1 |-> float(nums[1]), num2 |-> float(nums[2])]
             ELSE [error |-> PyStr(TwoNumbersMessage)]

extract_params(intent, txt) ==
    IF intent = "weather"
    THEN LET s == Strip(txt)
             m1 == SearchAfterPreposition(s)
             m == IF m1 = <<>> THEN SearchTrailingPlace(s) ELSE m1
             city == IF m # <<>> THEN Strip(m[1]) ELSE DefaultCity
         IN  [location |-> PyStr(city)]
    ELSE IF intent = "add"
    THEN LET nums == FindAllNumbers(txt, 1)
         IN  IF Len(nums) >= 2
             THEN [num1 |-> float(nums[1]), num2 |-> float(nums[2])]
             ELSE [error |-> PyStr(TwoNumbersMessage)]
    ELSE EmptyDict

-----------------------------------------------------------------------------
(* Dispatch *)

\* Variant of Dispatch with the final else branch left out: an unknown
\* intent leaves both result and error None.
DispatchWithoutElse(intent, params) ==
    IF intent = "weather"
    THEN LET location == IF "location" \in DOMAIN params
                         THEN params.location.s ELSE DefaultCity
         IN  [result |-> getWeather(location), error |-> PyNone,
              calls |-> <<"getWeather">>]
    ELSE IF intent = "joke"
    THEN [result |-> getJoke, error |-> PyNone, calls |-> <<"getJoke">>]
    ELSE IF intent = "add"
    THEN IF "error" \in DOMAIN params
         THEN [result |-> PyNone, error |-> params.error, calls |-> <<>>]
         ELSE [result |-> addNumbers(params.num1, params.num2), error |-> PyNone,
               calls |-> <<"addNumbers">>]
    ELSE [result |-> PyNone, error |-> PyNone, calls |-> <<>>]

\* The if/elif chain of route_query: result, error and the chatbot actions
\* it called, in order.
Dispatch(intent, params) ==
    IF intent = "weather"
    THEN LET location == IF "location" \in DOMAIN params
                         THEN params.location.s ELSE DefaultCity
         IN  [result |-> getWeather(location), error |-> PyNone,
              calls |-> <<"getWeather">>]
    ELSE IF intent = "joke"
    THEN [result |-> getJoke, error |-> PyNone, calls |-> <<"getJoke">>]
    ELSE IF intent = "add"
    THEN IF "error" \in DOMAIN params
         THEN [result |-> PyNone, error |-> params.error, calls |-> <<>>]
         ELSE [result |-> addNumbers(params.num1, params.num2), error |-> PyNone,
               calls |-> <<"addNumbers">>]
    ELSE [result |-> PyNone, error |-> PyStr(UnknownMessage), calls |-> <<>>]

\* The dict route_query returns.
Envelope(query, intent, params, result, error) ==
    [query |-> query, intent |-> intent, parameters |-> params,
     result |-> result, error |-> error]

route_query(query) ==
    LET intent == identify_intent(query)
        params == extract_params(intent, query)
        d == Dispatch(intent, params)
    IN  Envelope(query, intent, params, d.result, d.error)

\* The chatbot actions route_query(query) calls.
route_query_calls(query) ==
    LET intent == identify_intent(query)
    IN  Dispatch(intent, extract_params(intent, query)).calls

-----------------------------------------------------------------------------
(* The query strings the functions are called on *)

\* The example queries of the page's chips.
EgWeatherMumbai == <<"W", "h", "a", "t", "'", "s", " ", "t", "h", "e", " ", "w", "e", "a", "t", "h",
    "e", "r", " ", "i", "n", " ", "M", "u", "m", "b", "a", "i", "?">>

EgJoke == <<"T", "e", "l", "l", " ", "m", "e", " ", "a", " ", "j", "o", "k", "e">>

EgAdd == <<"a", "d", "d", " ", "1", "2", " ", "a", "n", "d", " ", "7">>

EgSum == <<"C", "a", "n", " ", "y", "o", "u", " ", "s", "u", "m", " ", "3", ".", "5", " ",
    "p", "l", "u", "s", " ", "6", "?">>

ExampleQueries == {EgWeatherMumbai, EgJoke, EgAdd, EgSum}

\* Fragments that queries are assembled from: keywords of every intent in
\* several letter cases, a preposition, a place name, digits, signs, the
\* decimal point and punctuation.
Pieces == <<
    <<"w", "e", "a", "t", "h", "e", "r">>,
    <<"F", "O", "R", "E", "C", "A", "S", "T">>,
    <<"T", "e", "m", "p", "e", "r", "a", "t", "u", "r", "e">>,
    <<"j", "o", "k", "e">>,
    <<"M", "a", "k", "e", " ", "m", "e", " ", "l", "a", "u", "g", "h">>,
    <<"a", "d", "d">>,
    <<"S", "u", "m">>,
    <<"+">>, <<"-">>, <<".">>, <<"?">>, <<" ">>,
    <<"1">>, <<"2">>,
    <<"i", "n">>,
    <<"G", "o", "a">> >>

MaxPieces == 3

RECURSIVE Concat(_)
Concat(ps) == IF ps = <<>> THEN <<>> ELSE Head(ps) \o Concat(Tail(ps))

PieceQueries ==
    UNION {{Concat([i \in 1..n |-> Pieces[f[i]]]) : f \in [1..n -> 1..Len(Pieces)]} :
              n \in 0..MaxPieces}

\* Weather queries whose last characters are punctuation, or a place name
\* behind punctuation.
PunctuatedQueries ==
    {Pieces[1] \o <<"?", "-">> \o Pieces[16],
     Pieces[1] \o <<"?", " ", "-", ".">>,
     Pieces[2] \o <<" ">> \o Pieces[15] \o <<" ", "-", ".">>}

Queries == PieceQueries \cup ExampleQueries \cup PunctuatedQueries

-----------------------------------------------------------------------------
(* The functions of app.py, each called once on a query *)

\* The locals of one route_query call; pc is the statement it is about to run.
IdleFrame ==
    [pc |-> "idle", query |-> <<>>, intent |-> "none", params |-> EmptyDict,
     result |-> PyNone, error |-> PyNone]

NumInvocations == 2

MaxRequests == 3

Invocations == 1..NumInvocations

ServerIdle ==
    /\ frames = [i \in Invocations |-> IdleFrame]
    /\ received = 0
    /\ responses = {}

\* The three panels as the page is served hold an em dash; run() sets them to
\* a horizontal ellipsis.  Each is one character, named by its code point.
Dash == <<"U+2014">>

Ellipsis == <<"U+2026">>

InitialPanels == [intent |-> Dash, params |-> Dash, result |-> Dash]

PageIdle ==
    /\ q_value = <<>>
    /\ go_disabled = FALSE
    /\ panels = InitialPanels
    /\ inflight = {}
    /\ started = 0

Init ==
    /\ text \in Queries
    /\ called = "none"
    /\ arg_intent = "none"
    /\ ret = PyNone
    /\ handler_calls = <<>>
    /\ ServerIdle
    /\ PageIdle

CallIdentifyIntent ==
    /\ called = "none"
    /\ called' = "identify_intent"
    /\ ret' = identify_intent(text)
    /\ UNCHANGED <<text, arg_intent, handler_calls, server_vars, page_vars>>

CallExtractParams ==
    /\ called = "none"
    /\ \E intent \in Intents :
        /\ arg_intent' = intent
        /\ ret' = extract_params(intent, text)
    /\ called' = "extract_params"
    /\ UNCHANGED <<text, handler_calls, server_vars, page_vars>>

CallRouteQuery ==
    /\ called = "none"
    /\ called' = "route_query"
    /\ ret' = route_query(text)
    /\ handler_calls' = route_query_calls(text)
    /\ UNCHANGED <<text, arg_intent, server_vars, page_vars>>

Next == CallIdentifyIntent \/ CallExtractParams \/ CallRouteQuery

Spec == Init /\ [][Next]_vars

-----------------------------------------------------------------------------
(* POST /route: invocations of route_query in flight on the server, each *)
(* advancing one statement at a time in any interleaving                  *)

\* Queries the endpoint is sent: one per branch of route_query, the add
\* branch with and without its two numbers.
ServerQueries == {EgWeatherMumbai, EgJoke, EgAdd, Pieces[6], <<>>}

InitServer ==
    /\ text = <<>>
    /\ called = "none"
    /\ arg_intent = "none"
    /\ ret = PyNone
    /\ handler_calls = <<>>
    /\ ServerIdle
    /\ PageIdle

\* route_endpoint(payload) calls route_query(payload.query)
Receive(i) ==
    /\ frames[i].pc = "idle"
    /\ received < MaxRequests
    /\ \E query \in ServerQueries :
        frames' = [frames EXCEPT ![i] = [IdleFrame EXCEPT !.pc = "identify", !.query = query]]
    /\ received' = received + 1
    /\ UNCHANGED <<responses, harness_vars, page_vars>>

\* Variant of IdentifyStep as if the intent were kept in a module-level
\* variable: an invocation finds there the intent another one has stored.
IdentifyStepShared(i) ==
    /\ frames[i].pc = "identify"
    /\ LET stored == {j \in Invocations : j # i /\ frames[j].intent # "none"}
       IN  frames' = [frames EXCEPT
                         ![i].intent = IF stored = {}
                                       THEN identify_intent(frames[i].query)
                                       ELSE frames[Min(stored)].intent,
                         ![i].pc = "extract"]
    /\ UNCHANGED <<received, responses, harness_vars, page_vars>>

\* intent = identify_intent(query)
IdentifyStep(i) ==
    /\ frames[i].pc = "identify"
    /\ frames' = [frames EXCEPT ![i].intent = identify_intent(frames[i].query),
                                ![i].pc = "extract"]
    /\ UNCHANGED <<received, responses, harness_vars, page_vars>>

\* params = extract_params(intent, query)
ExtractStep(i) ==
    /\ frames[i].pc = "extract"
    /\ frames' = [frames EXCEPT
                     ![i].params = extract_params(frames[i].intent, frames[i].query),
                     ![i].pc = "dispatch"]
    /\ UNCHANGED <<received, responses, harness_vars, page_vars>>

\* result = None; error = None; the if/elif chain
DispatchStep(i) ==
    /\ frames[i].pc = "dispatch"
    /\ LET d == Dispatch(frames[i].intent, frames[i].params)
       IN  frames' = [frames EXCEPT ![i].result = d.result, ![i].error = d.error,
                                    ![i].pc = "return"]
    /\ UNCHANGED <<received, responses, harness_vars, page_vars>>

\* return {...}; route_endpoint wraps it in a JSONResponse
ReturnStep(i) ==
    /\ frames[i].pc = "return"
    /\ responses' = responses \cup
           {Envelope(frames[i].query, frames[i].intent, frames[i].params,
                     frames[i].result, frames[i].error)}
    /\ frames' = [frames EXCEPT ![i] = IdleFrame]
    /\ UNCHANGED <<received, harness_vars, page_vars>>

NextServer ==
    \E i \in Invocations :
        \/ Receive(i)
        \/ IdentifyStep(i)
        \/ ExtractStep(i)
        \/ DispatchStep(i)
        \/ ReturnStep(i)

SpecServer == InitServer /\ [][NextServer]_vars

-----------------------------------------------------------------------------
(* The page script: the input, the Run button, the panels, and the          *)
(* fetch('/route') requests whose responses have not yet been handled       *)

MaxRuns == 3

\* What the user can leave in the input besides a chip's example: nothing,
\* blanks only, or a bare keyword with blanks around it.
TypedInputs == {<<>>, <<" ", " ">>, <<" ">> \o Pieces[1] \o <<" ">>}

ErrorPrefix == <<"E", "r", "r", "o", "r", ":", " ">>

FailedPrefix == <<"F", "a", "i", "l", "e", "d", ":", " ">>

InitPage ==
    /\ text = <<>>
    /\ called = "none"
    /\ arg_intent = "none"
    /\ ret = PyNone
    /\ handler_calls = <<>>
    /\ ServerIdle
    /\ PageIdle

\* a chip's click listener: q.value = el.dataset.eg
ChipClick ==
    /\ \E eg \in ExampleQueries : q_value' = eg
    /\ UNCHANGED <<go_disabled, panels, inflight, started, harness_vars, server_vars>>

\* the user edits the input
TypeInput ==
    /\ \E v \in TypedInputs : q_value' = v
    /\ UNCHANGED <<go_disabled, panels, inflight, started, harness_vars, server_vars>>

\* run() up to its await: returns at once on a blank input, else disables
\* the button, blanks the panels and sends the request
run ==
    LET query == Strip(q_value)
    IN  IF query = <<>>
        THEN UNCHANGED <<go_disabled, panels, inflight, started>>
        ELSE /\ started < MaxRuns
             /\ go_disabled' = TRUE
             /\ panels' = [intent |-> Ellipsis, params |-> Ellipsis, result |-> Ellipsis]
             /\ inflight' = inflight \cup {[id |-> started + 1, query |-> query]}
             /\ started' = started + 1

\* go.addEventListener('click', run): a disabled button gets no click event
ClickRun ==
    /\ ~go_disabled
    /\ run
    /\ UNCHANGED <<q_value, harness_vars, server_vars>>

\* q.addEventListener('keydown', ...): Enter in the input calls run()
PressEnter ==
    /\ run
    /\ UNCHANGED <<q_value, harness_vars, server_vars>>

\* result.textContent = data.error ? `Error: ${data.error}` : (a number as
\* its decimal text, anything else as it is)
ResultText(data) ==
    IF data.error # PyNone /\ data.error.s # <<>>
    THEN PyStr(ErrorPrefix \o data.error.s)
    ELSE IF data.result.t = "float"
    THEN [t |-> "str", decimal |-> [m |-> data.result.m, e |-> data.result.e]]
    ELSE data.result

\* the rest of run() once the response has come: fill the panels, then the
\* finally block enables the button
ResponseArrives ==
    /\ \E r \in inflight :
        LET data == route_query(r.query)
        IN  /\ panels' = [intent |-> data.intent, params |-> data.parameters,
                          result |-> ResultText(data)]
            /\ inflight' = inflight \ {r}
    /\ go_disabled' = FALSE
    /\ UNCHANGED <<q_value, started, harness_vars, server_vars>>

\* the catch block (fetch or res.json() threw), then the finally block
FetchFails ==
    /\ \E r \in inflight :
        /\ panels' = [panels EXCEPT !.result = PyStr(FailedPrefix)]
        /\ inflight' = inflight \ {r}
    /\ go_disabled' = FALSE
    /\ UNCHANGED <<q_value, started, harness_vars, server_vars>>

NextPage == ChipClick \/ TypeInput \/ ClickRun \/ PressEnter \/ ResponseArrives \/ FetchFails

SpecPage == InitPage /\ [][NextPage]_vars

-----------------------------------------------------------------------------
(* Properties of the classifier, the extractor and the dispatcher (Spec) *)

\* keyword k occurs in txt, in any letter case
OccursAnyCase(k, txt) ==
    \E i \in 1..(Len(txt) - Len(k) + 1) :
        \A j \in 1..Len(k) : LowerChar(txt[i + j - 1]) = k[j]

\* txt holds a keyword of the n-th declared intent
HasKeywordOf(n, txt) ==
    \E j \in 1..Len(INTENT_KEYWORDS[n].keywords) :
        OccursAnyCase(INTENT_KEYWORDS[n].keywords[j], txt)

NoKeyword(txt) == \A n \in 1..Len(INTENT_KEYWORDS) : ~HasKeywordOf(n, txt)

\* C1: the envelope route_query returns has exactly one of result and error
\* non-null, on every branch.
C1_ExactlyOneOfResultAndError ==
    called = "route_query" => ((ret.result = PyNone) # (ret.error = PyNone))

C1_Witness_AddWithoutNumbers ==
    /\ called = "route_query"
    /\ ret.intent = "add"
    /\ ret.result = PyNone
    /\ ret.error # PyNone

\* C2: identify_intent returns the earliest-declared intent (Weather, Joke,
\* Add) one of whose keywords occurs in the text in any letter case; so a
\* Weather keyword wins over Joke and Add keywords, and a Joke keyword wins
\* over an Add keyword.
C2_FirstMatchWins ==
    called = "identify_intent" =>
        /\ \A n \in 1..Len(INTENT_KEYWORDS) :
            (HasKeywordOf(n, text) /\ \A m \in 1..(n - 1) : ~HasKeywordOf(m, text))
                => ret = INTENT_KEYWORDS[n].intent
        /\ HasKeywordOf(1, text) => ret = "weather"
        /\ (HasKeywordOf(2, text) /\ HasKeywordOf(3, text) /\ ~HasKeywordOf(1, text))
                => ret = "joke"

C2_Witness_UppercaseWeatherBeatsJokeAndAdd ==
    /\ called = "identify_intent"
    /\ HasKeywordOf(1, text) /\ HasKeywordOf(2, text) /\ HasKeywordOf(3, text)
    /\ ~AnyKeywordIn(INTENT_KEYWORDS[1].keywords, text)
    /\ ret = "weather"

\* C3: a query holding none of the keywords, the empty string included, gets
\* intent "unknown", empty parameters, a null result and the fixed
\* clarification message as error.
C3_UnknownGetsClarification ==
    (called = "route_query" /\ NoKeyword(text)) =>
        ret = [query |-> text, intent |-> "unknown", parameters |-> EmptyDict,
               result |-> PyNone, error |-> PyStr(UnknownMessage)]

C3_Witness_NonEmptyUnknown ==
    /\ called = "route_query"
    /\ NoKeyword(text)
    /\ Len(text) > 2
    /\ ret.intent = "unknown"

\* w matches [-+]?(?:\d*\.\d+|\d+) as a whole: an optional sign, then digits
\* with at most one decimal point that is followed by a digit
IsNumeric(w) ==
    LET b == IF w # <<>> /\ w[1] \in {"-", "+"} THEN Tail(w) ELSE w
        dots == {i \in 1..Len(b) : b[i] = "."}
    IN  /\ b # <<>>
        /\ \A i \in 1..Len(b) : IsDigit(b[i]) \/ b[i] = "."
        /\ Cardinality(dots) <= 1
        /\ b[Len(b)] # "."

\* the first numeric substring of s that starts at or after p, taken as long
\* as it can be: <<first index, last index>>, or <<>>
NextNumeric(s, p) ==
    LET NumericFrom(i) == {j \in i..Len(s) : IsNumeric(SubSeq(s, i, j))}
        starts == {i \in p..Len(s) : NumericFrom(i) # {}}
    IN  IF starts = {} THEN <<>>
        ELSE <<Min(starts), Max(NumericFrom(Min(starts)))>>

\* the integer the digits of w spell, its sign and decimal point left out
RECURSIVE Unscaled(_)
Unscaled(w) ==
    IF w = <<>> THEN 0
    ELSE IF IsDigit(Head(w))
         THEN DigitValue[Head(w)] * Pow10(Cardinality({i \in 2..Len(w) : IsDigit(w[i])}))
              + Unscaled(Tail(w))
         ELSE Unscaled(Tail(w))

FractionDigits(w) ==
    LET dots == {i \in 1..Len(w) : w[i] = "."}
    IN  IF dots = {} THEN 0 ELSE Len(w) - Max(dots)

\* the float f is the number the numeric substring w spells
IsValueOf(f, w) ==
    /\ f.t = "float"
    /\ f.m * Pow10(FractionDigits(w))
          = (IF w[1] = "-" THEN 0 - Unscaled(w) ELSE Unscaled(w)) * Pow10(f.e)

\* C4: extract_params for Add returns {num1, num2}, the values of the first
\* and second numeric substring, when the text holds two or more, and
\* otherwise only {error: the two-numbers message}.
C4_AddParamsShape ==
    (called = "extract_params" /\ arg_intent = "add") =>
        LET a == NextNumeric(text, 1)
            b == IF a = <<>> THEN <<>> ELSE NextNumeric(text, a[2] + 1)
        IN  IF b # <<>>
            THEN /\ DOMAIN ret = {"num1", "num2"}
                 /\ IsValueOf(ret.num1, SubSeq(text, a[1], a[2]))
                 /\ IsValueOf(ret.num2, SubSeq(text, b[1], b[2]))
            ELSE /\ DOMAIN ret = {"error"}
                 /\ ret.error = PyStr(TwoNumbersMessage)

C4_Witness_DecimalThenInteger ==
    /\ called = "extract_params"
    /\ arg_intent = "add"
    /\ text = EgSum
    /\ ret = [num1 |-> PyFloat(35, 1), num2 |-> PyFloat(6, 0)]

\* the float r is the sum of the floats a and b
IsSumOf(r, a, b) ==
    /\ r.t = "float"
    /\ r.m * Pow10(a.e + b.e) = (a.m * Pow10(b.e) + b.m * Pow10(a.e)) * Pow10(r.e)

\* C5: for a query classified Add, an error in the parameters is returned
\* unchanged as error with a null result and no call of addNumbers; without
\* one, error is null and result is num1 + num2.
C5_AddErrorOrSum ==
    (called = "route_query" /\ ret.intent = "add") =>
        IF "error" \in DOMAIN ret.parameters
        THEN /\ ret.error = ret.parameters.error
             /\ ret.result = PyNone
             /\ \A i \in 1..Len(handler_calls) : handler_calls[i] # "addNumbers"
        ELSE /\ ret.error = PyNone
             /\ IsSumOf(ret.result, ret.parameters.num1, ret.parameters.num2)
             /\ handler_calls = <<"addNumbers">>

C5_Witness_TwelvePlusSeven ==
    /\ called = "route_query"
    /\ text = EgAdd
    /\ ret.parameters = [num1 |-> PyFloat(12, 0), num2 |-> PyFloat(7, 0)]
    /\ ret.result = PyFloat(19, 0)

Mumbai == <<"M", "u", "m", "b", "a", "i">>

\* extract_params has been called for a Weather query, directly or by
\* route_query
WeatherParamsExtracted ==
    \/ called = "extract_params" /\ arg_intent = "weather"
    \/ called = "route_query" /\ ret.intent = "weather"

\* the parameters it returned
ExtractedParams == IF called = "route_query" THEN ret.parameters ELSE ret

\* C6: extract_params("weather", "What's the weather in Mumbai?") is
\* {location: "Mumbai"}.
C6_MumbaiIsExtracted ==
    (WeatherParamsExtracted /\ text = EgWeatherMumbai)
        => ExtractedParams = [location |-> PyStr(Mumbai)]

\* C7 as claimed: extract_params("weather", "weather") is {location: "your
\* city"}.
C7_BareKeywordGetsDefault ==
    (WeatherParamsExtracted /\ text = Pieces[1])
        => ExtractedParams = [location |-> PyStr(DefaultCity)]

\* C7 as amended: a Weather query that, once trimmed, is empty or ends in a
\* character other than a letter, whitespace, period or hyphen gets
\* {location: "your city"}; the bare keyword "weather" gets {location:
\* "weather"}.
C7_DefaultWhenEndIsNoPlaceChar ==
    WeatherParamsExtracted =>
        LET s == Strip(text)
        IN  /\ (s = <<>> \/ ~IsPlaceChar(s[Len(s)]))
                => ExtractedParams = [location |-> PyStr(DefaultCity)]
            /\ text = Pieces[1] => ExtractedParams = [location |-> PyStr(Pieces[1])]

C7_Witness_KeywordThenQuestionMark ==
    /\ called = "route_query"
    /\ text = Pieces[1] \o <<"?">>
    /\ ret.intent = "weather"
    /\ ret.parameters = [location |-> PyStr(DefaultCity)]

\* the longest run of letters, whitespace, periods and hyphens that ends s
LongestTrailingRun(s) ==
    LET other == {i \in 1..Len(s) : ~IsPlaceChar(s[i])}
    IN  IF other = {} THEN s ELSE SubSeq(s, Max(other) + 1, Len(s))

\* C9 as claimed: when Strategy 1 finds nothing, the location is the longest
\* trailing run of letters/spaces/periods/hyphens of at least 2 characters,
\* trimmed, and the default only when there is no such run.
C9_LongestTrailingRun ==
    (/\ called = "route_query"
     /\ ret.intent = "weather"
     /\ SearchAfterPreposition(Strip(text)) = <<>>) =>
        LET r == LongestTrailingRun(Strip(text))
        IN  ret.parameters =
                [location |-> PyStr(IF Len(r) >= 2 THEN Strip(r) ELSE DefaultCity)]

\* C9 as amended: when Strategy 1 finds nothing, the location is the longest
\* trailing run of letters/spaces/periods/hyphens that begins with a letter
\* and has at least 2 characters, trimmed, and the default only when there
\* is no such run.
C9_LongestTrailingRunFromLetter ==
    (WeatherParamsExtracted /\ SearchAfterPreposition(Strip(text)) = <<>>) =>
        LET r == LongestTrailingRun(Strip(text))
            letters == {i \in 1..(Len(r) - 1) : IsLetter(r[i])}
        IN  ExtractedParams =
                [location |-> PyStr(IF letters # {}
                                    THEN Strip(SubSeq(r, Min(letters), Len(r)))
                                    ELSE DefaultCity)]

C9_Witness_RunStartsWithHyphen ==
    /\ called = "route_query"
    /\ ret.intent = "weather"
    /\ SearchAfterPreposition(Strip(text)) = <<>>
    /\ LongestTrailingRun(Strip(text)) = <<"-">> \o Pieces[16]
    /\ ret.parameters = [location |-> PyStr(Pieces[16])]

-----------------------------------------------------------------------------
(* Properties of concurrent invocations (SpecServer) *)

\* C8: every envelope returned, and every local an invocation has computed
\* so far, is the one route_query gives for that invocation's own query,
\* whatever other invocations ran before or run alongside; so two
\* invocations with the same query return equal envelopes.
C8_EnvelopeDependsOnOwnQueryOnly ==
    /\ \A r \in responses : r = route_query(r.query)
    /\ \A r1, r2 \in responses : r1.query = r2.query => r1 = r2
    /\ \A i \in Invocations :
        LET f == frames[i]
            e == route_query(f.query)
        IN  /\ f.pc \in {"extract", "dispatch", "return"} => f.intent = e.intent
            /\ f.pc \in {"dispatch", "return"} => f.params = e.parameters
            /\ f.pc = "return" => (f.result = e.result /\ f.error = e.error)

C8_Witness_SameQueryAgainBesideAnother ==
    \E i, j \in Invocations :
        /\ i # j
        /\ frames[i].pc = "return"
        /\ frames[j].pc \in {"extract", "dispatch", "return"}
        /\ frames[j].intent # frames[i].intent
        /\ \E r \in responses : r.query = frames[i].query

-----------------------------------------------------------------------------
(* Properties of the page script (SpecPage) *)

\* C10: at most one /route request is in flight at any time, and the Run
\* button is disabled for as long as one is.
C10_AtMostOneRequestInFlight ==
    /\ Cardinality(inflight) <= 1
    /\ inflight # {} => go_disabled

====
